---- MODULE Spec2Model ----
(***************************************************************************)
(* Model of src/app.py: the Streamlit medical-image analysis application.  *)
(*                                                                         *)
(* Streamlit runs main() once per user interaction, one script thread per  *)
(* browser session, all threads in one server process.  The sessions share *)
(* the process environment (os.environ) and the working directory, hence   *)
(* the directory temp/; st.session_state is private to a session.          *)
(*                                                                         *)
(* A step of the model is one access to that shared state (a file read,    *)
(* write, listing or unlink, a read or write of os.environ) together with  *)
(* the thread-local code around it.                                        *)
(*                                                                         *)
(* An exception is modelled by where its handler takes control.  The       *)
(* faults are those the code's "except Exception" clauses catch.           *)
(* datetime.now() is the session's count of analyses, a clock that never   *)
(* runs backwards; analysis_time, the spinner, the page layout and the     *)
(* settings of the sidebar are left out.                                  *)
(***************************************************************************)
EXTENDS Integers, Sequences, FiniteSets, TLC

\* ------------------------------------------------------------ bounds

\* Analyses (calls of analyze) started, all sessions together, when both
\* browser sessions are connected.
MaxAnalyses == 2
\* Analyses started when one browser session is connected: a history gets
\* up to this many entries.
MaxSoloAnalyses == 3
\* Largest source image of the preprocessing specification SpecPre.
MaxW == 810
MaxH == 12

\* ------------------------------------------------------------ constants

\* new_width = 800
TargetWidth == 800
\* Significand bits of a Python float below the leading one (IEEE-754 binary64).
MantBits == 52

Sessions == {"A", "B"}

\* Config.TEMP_DIR / "processed_image.png"; files of temp/ are named by
\* their name inside the directory.
PROCESSED == "processed_image.png"
\* uploaded_file.name
UploadNames == {"scan.png"}
\* sample_options: the paths of the sample images, files outside temp/
SamplePaths == {"samples/chest_xray.jpg"}

\* The content response.content takes; it has surrounding white space.
Reports == {" report "}
\* str(e) of a fault of agent.run
Faults == {"quota exceeded"}

\* The warning sign U+26A0 U+FE0F that starts the failure text.
WarningSign == "(warning sign)"

\* ------------------------------------------------------------ values

None == [kind |-> "none"]
Str(parts) == [kind |-> "str", parts |-> parts]
SomePath(p) == [kind |-> "path", path |-> p]

\* An image as bytes: decodable by PIL or not, with its size.
BadImage == [ok |-> FALSE, w |-> 0, h |-> 0]
\* The bytes of a file between open(path, "wb"), which creates or empties
\* it, and the end of f.write: none or the start of an upload, no image.
Truncated == [ok |-> FALSE, w |-> 0, h |-> 0, whole |-> FALSE]
Img(w, h) == [ok |-> TRUE, w |-> w, h |-> h]
Images == {BadImage, Img(4, 3)}

\* ------------------------------------------------------------ preprocess_image, arithmetic

RECURSIVE Log2Floor(_)
Log2Floor(n) == IF n < 2 THEN 0 ELSE 1 + Log2Floor(n \div 2)

RECURSIVE Pow2(_)
Pow2(k) == IF k <= 0 THEN 1 ELSE 2 * Pow2(k - 1)

RECURSIVE Pow2Mod(_, _)
Pow2Mod(k, m) == IF k <= 0 THEN 1 % m ELSE (2 * Pow2Mod(k - 1, m)) % m

RECURSIVE ShiftsToReach(_, _)
ShiftsToReach(w, h) == IF w >= h THEN 0 ELSE 1 + ShiftsToReach(2 * w, h)

\* The binary exponent q of width / height: 2^q <= w/h < 2^(q+1).
RatioExp(w, h) == IF w >= h THEN Log2Floor(w \div h) ELSE 0 - ShiftsToReach(w, h)

\* aspect_ratio = width / height is the float nearest to w/h: its significand
\* is Q/h rounded, Q = w * 2^(52 - q).  RatioExcess is significand * h - Q:
\* positive when the quotient was rounded up, 0 or negative otherwise.
RatioExcess(w, h) ==
    LET rem == (w * Pow2Mod(MantBits - RatioExp(w, h), h)) % h
    IN  IF 2 * rem > h THEN h - rem ELSE 0 - rem

\* int(new_width / aspect_ratio).  When 800*h/w is no integer the float
\* quotient truncates to its floor.  When it is an integer N, the quotient
\* 800 / aspect_ratio is below N exactly when aspect_ratio was rounded up,
\* and it rounds to the float below N (so int gives N - 1) when it is more
\* than half a unit in the last place below N.
NewHeight(w, h) ==
    LET F == (TargetWidth * h) \div w
        q == RatioExp(w, h)
        e == Log2Floor(F)
        rho == RatioExcess(w, h)
        c == IF F = Pow2(e) THEN 4 ELSE 2
        a == IF q > e THEN q - e ELSE 0
        b == IF e > q THEN e - q ELSE 0
    IN  IF (TargetWidth * h) % w # 0 \/ rho <= 0 THEN F
        ELSE IF c * F * rho * Pow2(a) > w * Pow2(b) THEN F - 1 ELSE F

\* Image.open ... img.resize: the normalized image in memory, or None when
\* an exception was raised (undecodable input; resize refuses a size < 1).
Resize(img) ==
    IF ~img.ok THEN None
    ELSE IF NewHeight(img.w, img.h) < 1 THEN None
    ELSE [kind |-> "image", w |-> TargetWidth, h |-> NewHeight(img.w, img.h), src |-> img]

\* ------------------------------------------------------------ state

VARIABLES
    envKey,         \* GOOGLE_API_KEY in os.environ (one per process):
                    \* "absent", "empty" (set to ''), "set" (a non-empty key)
    files,          \* the files of temp/: name -> content
    pc,             \* where each session's script thread is
    initOK,         \* what Config.initialize returned in the current run
    ready,          \* the run's analyzer: "none" (not built), "ready", "failed"
    direct,         \* analyze was called by a caller other than main()
    imagePath,      \* image_path of the run
    reqNo,          \* analyses this session has started (its clock)
    opened,         \* the bytes Image.open read in preprocess_image
    processedPath,  \* processed_path of analyze
    sent,           \* content of the file agent.run was given
    agentRes,       \* what agent.run did in the current call of analyze
    calls,          \* calls of agent.run in the current call of analyze
    result,         \* the value analyze returns
    todo,           \* files of the glob clean_temp_files has still to visit
    failed,         \* files whose unlink raised in the current cleanup
    history,        \* st.session_state.analysis_history
    shown,          \* what main handed to the right column
    clearIdx,       \* the i of the Clear Entry button that was pressed
    pw, ph, pout    \* SpecPre: a source image size and its normalization

vars == <<envKey, files, pc, initOK, ready, direct, imagePath, reqNo, opened,
          processedPath, sent, agentRes, calls, result, todo, failed,
          history, shown, clearIdx, pw, ph, pout>>

preVars == <<pw, ph, pout>>
Missing == [kind |-> "missing"]

Pending == [kind |-> "pending"]

\* ------------------------------------------------------------ files

Write(fs, name, content) ==
    [f \in DOMAIN fs \cup {name} |-> IF f = name THEN content ELSE fs[f]]

Unlink(fs, name) == [f \in DOMAIN fs \ {name} |-> fs[f]]

\* os.path.exists(image_path), for a path in temp/
Exists(p) == p \in DOMAIN files

\* os.path.exists(image_path): a sample image is a file outside temp/ that
\* the program never writes; whether it is there is up to the installation.
Found(p, there) == IF p \in SamplePaths THEN there ELSE Exists(p)

\* The bytes Image.open reads at a path in temp/
ReadImage(p) == files[p].img

\* The bytes Image.open reads at a path that was found; sample: what the
\* sample file holds, which is up to the installation.
ReadAt(p, sample) == IF p \in SamplePaths THEN sample ELSE ReadImage(p)

\* os.path.basename(str(image_path)): a file of temp/ is named by its base name
Basename(p) == IF p = "samples/chest_xray.jpg" THEN "chest_xray.jpg" ELSE p

\* ------------------------------------------------------------ Config

\* load_dotenv(): a variable of the .env file is put into os.environ when
\* os.environ does not have it; a value that is there, even '', stays.
\* dotenv is what the .env file gives for GOOGLE_API_KEY: "none" (no file,
\* or no such line), "empty" (GOOGLE_API_KEY=), "key" (a non-empty value).
\* The test: does load_dotenv go on to assign the variable?
DotenvAssigns(env, dotenv) == env = "absent" /\ dotenv # "none"

\* The assignment: what os.environ has for the variable afterwards.
DotenvValue(dotenv) == IF dotenv = "empty" THEN "empty" ELSE "set"

\* api_key = os.getenv("GOOGLE_API_KEY"); "if not api_key" holds of an absent
\* and of an empty value.
HasKey(env) == env = "set"

\* main: if not Config.initialize(): st.warning(...); st.stop()
AfterInitializeSkipsStop(ok) == "create"
AfterInitialize(ok) == IF ok THEN "create" ELSE "stopped"

\* main: if not analyzer.ready: st.error(...); st.stop()
AfterCreate(isReady) == IF isReady THEN "sidebar" ELSE "stopped"

\* ------------------------------------------------------------ analyze, values

NotInitialized == Str(<<"Analyzer not properly initialized.">>)
PreprocessingFailed == Str(<<"Image preprocessing failed.">>)

\* f"(warning sign) Analysis failed: {str(e)}"
AnalyzeFailureRaises(e) == [kind |-> "raise", parts |-> <<e>>]
AnalyzeFailure(e) == Str(<<WarningSign, " Analysis failed: ", e>>)

Strip(r) == IF r = " report " THEN "report" ELSE r

\* result = {"content": response.content, "timestamp": ..., "analysis_time": ...}
AnalyzeSuccessStripped(content, ts) ==
    [kind |-> "dict", content |-> Strip(content), timestamp |-> ts]
AnalyzeSuccess(content, ts) ==
    [kind |-> "dict", content |-> content, timestamp |-> ts]

\* processed_path = Config.TEMP_DIR / "processed_image.png"
ProcessedNamePerSession(s) == IF s = "A" THEN PROCESSED ELSE "processed_image_B.png"
ProcessedName(s) == PROCESSED

\* ------------------------------------------------------------ initial state

Init ==
    /\ envKey \in {"absent", "empty", "set"}
    /\ files = << >>
    /\ \E second \in {"idle", "off"} :
          pc = [s \in Sessions |-> IF s = "B" THEN second ELSE "idle"]
    /\ initOK = [s \in Sessions |-> None]
    /\ ready = [s \in Sessions |-> "none"]
    /\ direct = [s \in Sessions |-> FALSE]
    /\ imagePath = [s \in Sessions |-> None]
    /\ reqNo = [s \in Sessions |-> 0]
    /\ opened = [s \in Sessions |-> None]
    /\ processedPath = [s \in Sessions |-> None]
    /\ sent = [s \in Sessions |-> None]
    /\ agentRes = [s \in Sessions |-> None]
    /\ calls = [s \in Sessions |-> 0]
    /\ result = [s \in Sessions |-> None]
    /\ todo = [s \in Sessions |-> {}]
    /\ failed = [s \in Sessions |-> {}]
    /\ history = [s \in Sessions |-> << >>]
    /\ shown = [s \in Sessions |-> None]
    /\ clearIdx = [s \in Sessions |-> -1]
    /\ pw = 1 /\ ph = 1 /\ pout = Pending

\* A run starts from the values a fresh script run (or call) has.
ResetRun(s) ==
    /\ opened' = [opened EXCEPT ![s] = None]
    /\ processedPath' = [processedPath EXCEPT ![s] = None]
    /\ sent' = [sent EXCEPT ![s] = None]
    /\ agentRes' = [agentRes EXCEPT ![s] = None]
    /\ calls' = [calls EXCEPT ![s] = 0]
    /\ result' = [result EXCEPT ![s] = None]
    /\ todo' = [todo EXCEPT ![s] = {}]
    /\ failed' = [failed EXCEPT ![s] = {}]
    /\ shown' = [shown EXCEPT ![s] = None]

Resting(s) == pc[s] \in {"idle", "stopped"}

\* Calls of analyze so far.
RECURSIVE Sum(_, _)
Sum(f, S) == IF S = {} THEN 0 ELSE LET x == CHOOSE y \in S : TRUE IN f[x] + Sum(f, S \ {x})
Started == Sum(reqNo, Sessions)

\* A browser session that is not connected ("off") runs nothing.
Solo == \E s \in Sessions : pc[s] = "off"
Budget == IF Solo THEN MaxSoloAnalyses ELSE MaxAnalyses

\* ------------------------------------------------------------ main, start of a run

\* main: UI.setup_page(); Config.initialize(): load_dotenv() reads the .env
\* file and tests whether os.environ has the variable.
StartRun(s) ==
    /\ Resting(s)
    /\ \E dotenv \in {"none", "empty", "key"} :
          pc' = [pc EXCEPT ![s] =
                    IF DotenvAssigns(envKey, dotenv)
                    THEN (IF dotenv = "empty" THEN "load_empty" ELSE "load_key")
                    ELSE "getenv"]
    /\ initOK' = [initOK EXCEPT ![s] = None]
    /\ ready' = [ready EXCEPT ![s] = "none"]
    /\ direct' = [direct EXCEPT ![s] = FALSE]
    /\ imagePath' = [imagePath EXCEPT ![s] = None]
    /\ ResetRun(s)
    /\ UNCHANGED <<envKey, files, reqNo, history, clearIdx, preVars>>

\* load_dotenv(): os.environ[k] = v, for the variable the test found absent.
LoadDotenvSet(s) ==
    /\ pc[s] \in {"load_empty", "load_key"}
    /\ envKey' = DotenvValue(IF pc[s] = "load_empty" THEN "empty" ELSE "key")
    /\ pc' = [pc EXCEPT ![s] = "getenv"]
    /\ UNCHANGED <<files, initOK, ready, direct, imagePath, reqNo, opened,
                   processedPath, sent, agentRes, calls, result, todo, failed,
                   history, shown, clearIdx, preVars>>

\* Config.initialize has returned ok; if not ok: st.stop();
\* analyzer = MedicalImageAnalyzer(); if not analyzer.ready: ... st.stop()
Initialized(s, ok, isReady) ==
    LET built == AfterInitialize(ok) = "create"
    IN  /\ initOK' = [initOK EXCEPT ![s] = [kind |-> "bool", val |-> ok]]
        /\ ready' = [ready EXCEPT ![s] =
                        IF ~built THEN "none"
                        ELSE IF isReady THEN "ready" ELSE "failed"]
        /\ pc' = [pc EXCEPT ![s] =
                     IF built THEN AfterCreate(isReady) ELSE "stopped"]

\* api_key = os.getenv("GOOGLE_API_KEY"); if not api_key: api_key =
\* st.sidebar.text_input(...); if api_key: (the assignment below) else
\* return False.  With a key in os.environ: return True.
GetEnv(s) ==
    /\ pc[s] = "getenv"
    /\ \E entered \in BOOLEAN, isReady \in BOOLEAN :
          IF HasKey(envKey) THEN Initialized(s, TRUE, isReady)
          ELSE IF entered
               THEN /\ pc' = [pc EXCEPT ![s] = "setenv"]
                    /\ UNCHANGED <<initOK, ready>>
               ELSE Initialized(s, FALSE, isReady)
    /\ UNCHANGED <<envKey, files, direct, imagePath, reqNo, opened,
                   processedPath, sent, agentRes, calls, result, todo, failed,
                   history, shown, clearIdx, preVars>>

\* os.environ["GOOGLE_API_KEY"] = api_key; return True
SetEnv(s) ==
    /\ pc[s] = "setenv"
    /\ envKey' = "set"
    /\ \E isReady \in BOOLEAN : Initialized(s, TRUE, isReady)
    /\ UNCHANGED <<files, direct, imagePath, reqNo, opened,
                   processedPath, sent, agentRes, calls, result, todo, failed,
                   history, shown, clearIdx, preVars>>

\* The sessions that hold the file at temp/name open for writing.
OpenFor(fs, name) == IF name \in DOMAIN fs THEN fs[name].fds ELSE {}

\* if uploaded_file: image_path = TEMP_DIR / name; with open(image_path, "wb"):
\* the file is created, or the one there is emptied.
SaveUploadOpen(s) ==
    /\ pc[s] = "sidebar"
    /\ \E name \in UploadNames :
          /\ files' = Write(files, name,
                            [by |-> "upload", req |-> 0, img |-> Truncated,
                             fds |-> OpenFor(files, name) \cup {s}])
          /\ imagePath' = [imagePath EXCEPT ![s] = SomePath(name)]
    /\ pc' = [pc EXCEPT ![s] = "up_write"]
    /\ UNCHANGED <<envKey, initOK, ready, direct, reqNo, opened, processedPath,
                   sent, agentRes, calls, result, todo, failed, history, shown,
                   clearIdx, preVars>>

\* f.write(uploaded_file.getbuffer()) and the close.  The bytes go to the
\* file that was opened: when it was unlinked since, no file of temp/ shows
\* them.  Of two sessions writing the same file the later write decides what
\* a reader decodes.
SaveUploadWrite(s) ==
    /\ pc[s] = "up_write"
    /\ \E img \in Images :
          LET name == imagePath[s].path
          IN  files' = IF s \in OpenFor(files, name)
                       THEN Write(files, name,
                                  [by |-> "upload", req |-> 0, img |-> img,
                                   fds |-> OpenFor(files, name) \ {s}])
                       ELSE files
    /\ pc' = [pc EXCEPT ![s] = "button"]
    /\ UNCHANGED <<envKey, initOK, ready, direct, imagePath, reqNo, opened,
                   processedPath, sent, agentRes, calls, result, todo, failed,
                   history, shown, clearIdx, preVars>>

\* elif sample_file: image_path = sample_file
SelectSample(s) ==
    /\ pc[s] = "sidebar"
    /\ \E p \in SamplePaths :
          imagePath' = [imagePath EXCEPT ![s] = SomePath(p)]
    /\ pc' = [pc EXCEPT ![s] = "button"]
    /\ UNCHANGED <<envKey, files, initOK, ready, direct, reqNo, opened,
                   processedPath, sent, agentRes, calls, result, todo, failed,
                   history, shown, clearIdx, preVars>>

\* else: st.info("Please upload a medical image or select a sample to begin.")
NoImage(s) ==
    /\ pc[s] = "sidebar"
    /\ pc' = [pc EXCEPT ![s] = "tab"]
    /\ UNCHANGED <<envKey, files, initOK, ready, direct, imagePath, reqNo, opened,
                   processedPath, sent, agentRes, calls, result, todo, failed,
                   history, shown, clearIdx, preVars>>

\* if st.button("Analyze Image"): if not os.path.exists(image_path): st.error(...)
\* else: result = analyzer.analyze(image_path)
ClickAnalyze(s) ==
    /\ pc[s] = "button"
    /\ \E there \in BOOLEAN :
          /\ Found(imagePath[s].path, there) => Started < Budget
          /\ IF Found(imagePath[s].path, there)
             THEN /\ pc' = [pc EXCEPT ![s] = "an_enter"]
                  /\ reqNo' = [reqNo EXCEPT ![s] = @ + 1]
                  /\ shown' = shown
             ELSE /\ pc' = [pc EXCEPT ![s] = "tab_clicked"]
                  /\ reqNo' = reqNo
                  /\ shown' = [shown EXCEPT ![s] =
                                  Str(<<"The image file is not accessible.">>)]
    /\ UNCHANGED <<envKey, files, initOK, ready, direct, imagePath, opened,
                   processedPath, sent, agentRes, calls, result, todo, failed,
                   history, clearIdx, preVars>>

\* elif "analysis_history" in st.session_state and st.session_state.analysis_history:
\*     latest = history[0]; if latest["filename"] == basename: display(latest["result"])
NoClick(s) ==
    /\ pc[s] = "button"
    /\ shown' = [shown EXCEPT ![s] =
                    IF /\ history[s] # << >>
                       /\ history[s][1].filename = Basename(imagePath[s].path)
                    THEN [kind |-> "report", content |-> history[s][1].result.content]
                    ELSE None]
    /\ pc' = [pc EXCEPT ![s] = "tab"]
    /\ UNCHANGED <<envKey, files, initOK, ready, direct, imagePath, reqNo, opened,
                   processedPath, sent, agentRes, calls, result, todo, failed,
                   history, clearIdx, preVars>>

\* main() stops before it calls analyze when the constructor set ready to
\* False.  The call main() never makes: a caller other than main() builds a
\* MedicalImageAnalyzer whose constructor fails and calls analyze(image_path).
DirectCall(s) ==
    /\ Resting(s)
    /\ Started < Budget
    /\ \E p \in UploadNames :
          /\ ready' = [ready EXCEPT ![s] = "failed"]
          /\ ResetRun(s)
          /\ imagePath' = [imagePath EXCEPT ![s] = SomePath(p)]
    /\ direct' = [direct EXCEPT ![s] = TRUE]
    /\ initOK' = [initOK EXCEPT ![s] = None]
    /\ reqNo' = [reqNo EXCEPT ![s] = @ + 1]
    /\ pc' = [pc EXCEPT ![s] = "an_enter"]
    /\ UNCHANGED <<envKey, files, history, clearIdx, preVars>>

\* ------------------------------------------------------------ analyze

\* if not self.ready: return "Analyzer not properly initialized."
AnalyzeEnter(s) ==
    /\ pc[s] = "an_enter"
    /\ IF ready[s] = "ready"
       THEN /\ pc' = [pc EXCEPT ![s] = "pre_load"]
            /\ result' = result
       ELSE /\ pc' = [pc EXCEPT ![s] = "an_ret"]
            /\ result' = [result EXCEPT ![s] = NotInitialized]
    /\ UNCHANGED <<envKey, files, initOK, ready, direct, imagePath, reqNo, opened,
                   processedPath, sent, agentRes, calls, todo, failed, history,
                   shown, clearIdx, preVars>>

\* preprocess_image, Image.open to img.resize.  An exception (no such file,
\* undecodable bytes, a height below 1) makes preprocess_image return None
\* and analyze return "Image preprocessing failed." through its finally.
PreprocessLoad(s) ==
    /\ pc[s] = "pre_load"
    /\ \E there \in BOOLEAN, sample \in Images :
          LET p == imagePath[s].path
              bytes == IF Found(p, there) THEN ReadAt(p, sample) ELSE Missing
              img == IF Found(p, there) THEN Resize(bytes) ELSE None
          IN  /\ opened' = [opened EXCEPT ![s] = bytes]
              /\ IF img = None
                 THEN /\ result' = [result EXCEPT ![s] = PreprocessingFailed]
                      /\ pc' = [pc EXCEPT ![s] = "glob"]
                 ELSE /\ pc' = [pc EXCEPT ![s] = "pre_save"]
                      /\ result' = result
    /\ UNCHANGED <<envKey, files, initOK, ready, direct, imagePath, reqNo,
                   processedPath, sent, agentRes, calls, todo, failed, history,
                   shown, clearIdx, preVars>>

\* processed_path = TEMP_DIR / "processed_image.png"; img.save(processed_path).
\* Image.save first notes whether it will create the file:
\* created = not os.path.exists(filename).
PreprocessSaveTest(s) ==
    /\ pc[s] = "pre_save"
    /\ pc' = [pc EXCEPT ![s] =
                 IF Exists(ProcessedName(s)) THEN "pre_open_old" ELSE "pre_open_new"]
    /\ UNCHANGED <<envKey, files, initOK, ready, direct, imagePath, reqNo, opened,
                   processedPath, sent, agentRes, calls, result, todo, failed,
                   history, shown, clearIdx, preVars>>

\* Image.save: open(filename, "w+b"): the file is created, or the one there
\* is emptied.  When the open raises, preprocess_image returns None as above.
PreprocessSaveOpen(s) ==
    /\ pc[s] \in {"pre_open_old", "pre_open_new"}
    /\ \E isOpen \in BOOLEAN :
          IF isOpen
          THEN /\ files' = Write(files, ProcessedName(s),
                                 [by |-> s, req |-> reqNo[s], img |-> Truncated,
                                  fds |-> OpenFor(files, ProcessedName(s)) \cup {s}])
               /\ pc' = [pc EXCEPT ![s] =
                            IF pc[s] = "pre_open_new" THEN "pre_write_new"
                            ELSE "pre_write_old"]
               /\ result' = result
          ELSE /\ files' = files
               /\ pc' = [pc EXCEPT ![s] = "glob"]
               /\ result' = [result EXCEPT ![s] = PreprocessingFailed]
    /\ UNCHANGED <<envKey, initOK, ready, direct, imagePath, reqNo, opened,
                   processedPath, sent, agentRes, calls, todo, failed, history,
                   shown, clearIdx, preVars>>

\* Image.save writes the image and closes the file; return processed_path.
\* The bytes go to the file that was opened: when it was unlinked since, no
\* file of temp/ shows them.  When the write raises, Image.save closes the
\* file with what was written and, if it created the file, goes on to
\* remove it; preprocess_image returns None.
PreprocessSave(s) ==
    /\ pc[s] \in {"pre_write_old", "pre_write_new"}
    /\ \E written \in BOOLEAN :
          LET name == ProcessedName(s)
              linked == s \in OpenFor(files, name)
              bytes == IF written THEN Resize(opened[s]) ELSE Truncated
          IN  /\ files' = IF linked
                           THEN Write(files, name,
                                      [by |-> s, req |-> reqNo[s], img |-> bytes,
                                       fds |-> OpenFor(files, name) \ {s}])
                           ELSE files
              /\ IF written
                 THEN /\ processedPath' = [processedPath EXCEPT ![s] = SomePath(name)]
                      /\ pc' = [pc EXCEPT ![s] = "agent"]
                      /\ result' = result
                 ELSE /\ processedPath' = processedPath
                      /\ pc' = [pc EXCEPT ![s] =
                                   IF pc[s] = "pre_write_new" THEN "pre_remove"
                                   ELSE "glob"]
                      /\ result' = [result EXCEPT ![s] = PreprocessingFailed]
    /\ UNCHANGED <<envKey, initOK, ready, direct, imagePath, reqNo, opened, sent,
                   agentRes, calls, todo, failed, history, shown, clearIdx, preVars>>

\* Image.save, after a write that raised on a file it created:
\* os.remove(filename), whoever holds the path by now; an error of the remove
\* ends in the same "except Exception" of preprocess_image.
PreprocessSaveRemove(s) ==
    /\ pc[s] = "pre_remove"
    /\ \E removed \in BOOLEAN :
          /\ removed => Exists(ProcessedName(s))
          /\ files' = IF removed THEN Unlink(files, ProcessedName(s)) ELSE files
    /\ pc' = [pc EXCEPT ![s] = "glob"]
    /\ UNCHANGED <<envKey, initOK, ready, direct, imagePath, reqNo, opened,
                   processedPath, sent, agentRes, calls, result, todo, failed,
                   history, shown, clearIdx, preVars>>

\* What agent.run read at processed_path when it was called.
Submitted(s) ==
    IF processedPath[s].path \in DOMAIN files
    THEN [by |-> files[processedPath[s].path].by,
          req |-> files[processedPath[s].path].req,
          img |-> files[processedPath[s].path].img]
    ELSE None

\* response = self.agent.run(prompt, images=[agno_image]); return result
\* except Exception as e: return f"... Analysis failed: {str(e)}"
AgentOutcomes ==
    {[kind |-> "response", content |-> r] : r \in Reports}
      \cup {[kind |-> "fault", msg |-> e] : e \in Faults}

\* Where analyze goes after agent.run: to its finally block.
AfterAgentRetries(out, n) == IF out.kind = "fault" /\ n < 2 THEN "agent" ELSE "glob"
AfterAgent(out, n) == "glob"

AgentRun(s) ==
    /\ pc[s] = "agent"
    /\ \E out \in AgentOutcomes :
          /\ agentRes' = [agentRes EXCEPT ![s] = out]
          /\ result' = [result EXCEPT ![s] =
                           IF out.kind = "response"
                           THEN AnalyzeSuccess(out.content, reqNo[s])
                           ELSE AnalyzeFailure(out.msg)]
          /\ pc' = [pc EXCEPT ![s] = AfterAgent(out, calls[s] + 1)]
    /\ sent' = [sent EXCEPT ![s] = Submitted(s)]
    /\ calls' = [calls EXCEPT ![s] = @ + 1]
    /\ UNCHANGED <<envKey, files, initOK, ready, direct, imagePath, reqNo, opened,
                   processedPath, todo, failed, history, shown, clearIdx, preVars>>

\* finally: Config.clean_temp_files(): for file in TEMP_DIR.glob("*")
CleanupGlob(s) ==
    /\ pc[s] = "glob"
    /\ todo' = [todo EXCEPT ![s] = DOMAIN files]
    /\ failed' = [failed EXCEPT ![s] = {}]
    /\ pc' = [pc EXCEPT ![s] = IF DOMAIN files # {} THEN "unlink" ELSE "an_ret"]
    /\ UNCHANGED <<envKey, files, initOK, ready, direct, imagePath, reqNo, opened,
                   processedPath, sent, agentRes, calls, result, history, shown,
                   clearIdx, preVars>>

\* try: file.unlink() except Exception as e: print(...): the loop goes on
\* with the files left, and analyze returns when none is.  The unlink raises
\* when the file is gone (another session's cleanup removed it since the
\* listing), and it can raise on a file that is there (permissions, a file
\* in use), which then stays.
AfterUnlinkBreaks(removed, rest) == IF removed /\ rest # {} THEN "unlink" ELSE "an_ret"
AfterUnlink(removed, rest) == IF rest # {} THEN "unlink" ELSE "an_ret"

CleanupUnlink(s) ==
    /\ pc[s] = "unlink"
    /\ \E f \in todo[s] :
          /\ todo' = [todo EXCEPT ![s] = @ \ {f}]
          /\ \E removed \in BOOLEAN :
                /\ removed => f \in DOMAIN files
                /\ files' = IF removed THEN Unlink(files, f) ELSE files
                /\ failed' = [failed EXCEPT ![s] = IF removed THEN @ ELSE @ \cup {f}]
                /\ pc' = [pc EXCEPT ![s] = AfterUnlink(removed, todo[s] \ {f})]
    /\ UNCHANGED <<envKey, initOK, ready, direct, imagePath, reqNo, opened,
                   processedPath, sent, agentRes, calls, result, history, shown,
                   clearIdx, preVars>>

\* ------------------------------------------------------------ main, after analyze

\* isinstance(result, dict) and "content" in result
IsReportAlways(r) == TRUE
IsReport(r) == r.kind = "dict"

\* st.session_state.analysis_history.insert(0, history_item)
InsertAppends(h, item) == h \o <<item>>
Insert0(h, item) == <<item>> \o h

\* st.session_state.analysis_history.pop(i), i counted from 0
PopLast(h, i) == SubSeq(h, 1, Len(h) - 1)
Pop(h, i) == [j \in 1..(Len(h) - 1) |-> IF j <= i THEN h[j] ELSE h[j + 1]]

\* The script run is over; the next one starts from fresh locals.
EndOfRun(s) ==
    /\ pc' = [pc EXCEPT ![s] = "idle"]
    /\ initOK' = [initOK EXCEPT ![s] = None]
    /\ ready' = [ready EXCEPT ![s] = "none"]
    /\ direct' = [direct EXCEPT ![s] = FALSE]
    /\ imagePath' = [imagePath EXCEPT ![s] = None]
    /\ ResetRun(s)

\* main: history_item = {...}; history.insert(0, history_item);
\* UI.display_analysis_report(result)  /  st.error(f"Analysis failed: {result}")
MainStore(s) ==
    /\ pc[s] = "an_ret"
    /\ ~direct[s]
    /\ IF IsReport(result[s])
       THEN /\ history' = [history EXCEPT ![s] =
                              Insert0(@, [timestamp |-> reqNo[s],
                                          filename |-> Basename(imagePath[s].path),
                                          result |-> result[s]])]
            /\ shown' = [shown EXCEPT ![s] =
                            [kind |-> "report", content |-> result[s].content]]
       ELSE /\ history' = history
            /\ shown' = [shown EXCEPT ![s] =
                            [kind |-> "error",
                             parts |-> <<"Analysis failed: ">> \o result[s].parts]]
    /\ pc' = [pc EXCEPT ![s] = "tab_clicked"]
    \* the locals of analyze and preprocess_image are gone
    /\ opened' = [opened EXCEPT ![s] = None]
    /\ processedPath' = [processedPath EXCEPT ![s] = None]
    /\ sent' = [sent EXCEPT ![s] = None]
    /\ calls' = [calls EXCEPT ![s] = 0]
    /\ failed' = [failed EXCEPT ![s] = {}]
    /\ UNCHANGED <<envKey, files, initOK, ready, direct, imagePath, reqNo,
                   agentRes, result, todo, clearIdx, preVars>>

\* The other caller has its value back.
DirectReturn(s) ==
    /\ pc[s] = "an_ret"
    /\ direct[s]
    /\ EndOfRun(s)
    /\ UNCHANGED <<envKey, files, reqNo, history, clearIdx, preVars>>

\* The user presses the button "Clear Entry #{i+1}" of a rendered entry.
PressClearEntry(s) ==
    /\ pc[s] = "tab"
    /\ \E i \in 0..(Len(history[s]) - 1) :
          clearIdx' = [clearIdx EXCEPT ![s] = i]
    /\ pc' = [pc EXCEPT ![s] = "clear"]
    /\ UNCHANGED <<envKey, files, initOK, ready, direct, imagePath, reqNo, opened,
                   processedPath, sent, agentRes, calls, result, todo, failed,
                   history, shown, preVars>>

\* if st.button(f"Clear Entry #{i+1}"): history.pop(i); st.rerun()
ClearEntry(s) ==
    /\ pc[s] = "clear"
    /\ history' = [history EXCEPT ![s] = Pop(@, clearIdx[s])]
    /\ clearIdx' = [clearIdx EXCEPT ![s] = -1]
    /\ EndOfRun(s)
    /\ UNCHANGED <<envKey, files, reqNo, preVars>>

\* if st.button("Clear All History"): history = []; st.rerun()
ClearAll(s) ==
    /\ pc[s] = "tab"
    /\ history[s] # << >>
    /\ history' = [history EXCEPT ![s] = << >>]
    /\ EndOfRun(s)
    /\ UNCHANGED <<envKey, files, reqNo, clearIdx, preVars>>

\* No button of the History tab was pressed: the script runs to its end.
EndRun(s) ==
    /\ pc[s] \in {"tab", "tab_clicked"}
    /\ EndOfRun(s)
    /\ UNCHANGED <<envKey, files, reqNo, history, clearIdx, preVars>>

\* ------------------------------------------------------------ specifications

Next ==
    \E s \in Sessions :
        \/ StartRun(s)
        \/ LoadDotenvSet(s)
        \/ GetEnv(s)
        \/ SetEnv(s)
        \/ SaveUploadOpen(s)
        \/ SelectSample(s)
        \/ SaveUploadWrite(s)
        \/ NoImage(s)
        \/ ClickAnalyze(s)
        \/ NoClick(s)
        \/ DirectCall(s)
        \/ AnalyzeEnter(s)
        \/ PreprocessLoad(s)
        \/ PreprocessSaveTest(s)
        \/ PreprocessSaveOpen(s)
        \/ PreprocessSave(s)
        \/ PreprocessSaveRemove(s)
        \/ AgentRun(s)
        \/ CleanupGlob(s)
        \/ CleanupUnlink(s)
        \/ MainStore(s)
        \/ DirectReturn(s)
        \/ PressClearEntry(s)
        \/ ClearEntry(s)
        \/ ClearAll(s)
        \/ EndRun(s)

Spec == Init /\ [][Next]_vars

\* preprocess_image alone, called once by session A on every source size up
\* to MaxW x MaxH, with temp/ empty or holding an earlier processed_image.png.
InitPre ==
    /\ envKey = "absent"
    /\ files \in {<< >>,
                  Write(<< >>, PROCESSED,
                        [by |-> "B", req |-> 0, img |-> Resize(Img(4, 3)), fds |-> {}])}
    /\ pc = [s \in Sessions |-> "idle"]
    /\ initOK = [s \in Sessions |-> None]
    /\ ready = [s \in Sessions |-> "none"]
    /\ direct = [s \in Sessions |-> FALSE]
    /\ imagePath = [s \in Sessions |-> None]
    /\ reqNo = [s \in Sessions |-> 0]
    /\ opened = [s \in Sessions |-> None]
    /\ processedPath = [s \in Sessions |-> None]
    /\ sent = [s \in Sessions |-> None]
    /\ agentRes = [s \in Sessions |-> None]
    /\ calls = [s \in Sessions |-> 0]
    /\ result = [s \in Sessions |-> None]
    /\ todo = [s \in Sessions |-> {}]
    /\ failed = [s \in Sessions |-> {}]
    /\ history = [s \in Sessions |-> << >>]
    /\ shown = [s \in Sessions |-> None]
    /\ clearIdx = [s \in Sessions |-> -1]
    /\ pw \in 1..MaxW
    /\ ph \in 1..MaxH
    /\ pout = Pending

\* What img.save(processed_path) leaves of temp/ in a call nothing
\* overlaps: the image when it succeeds; the directory as it was when its
\* open raises; when the write raises, an emptied file where there was one,
\* and where it created the file, nothing, or the emptied file when the
\* os.remove raises too.
SaveOutcomes(fs, img) ==
    LET file(bytes) == [by |-> "A", req |-> 0, img |-> bytes, fds |-> {}]
    IN  {[saved |-> TRUE, files |-> Write(fs, PROCESSED, file(img))],
         [saved |-> FALSE, files |-> fs],
         [saved |-> FALSE, files |-> Write(fs, PROCESSED, file(Truncated))]}

\* preprocess_image: pout is the image img.resize gave (None when the
\* resize raised), processedPath what preprocess_image returned:
\* processed_path when the save succeeded too, None otherwise.
Normalize ==
    /\ pout = Pending
    /\ pout' = Resize(Img(pw, ph))
    /\ opened' = [opened EXCEPT !["A"] = Img(pw, ph)]
    /\ IF Resize(Img(pw, ph)) = None
       THEN /\ files' = files
            /\ processedPath' = processedPath
       ELSE \E out \in SaveOutcomes(files, Resize(Img(pw, ph))) :
               /\ files' = out.files
               /\ processedPath' = [processedPath EXCEPT !["A"] =
                                        IF out.saved THEN SomePath(PROCESSED) ELSE None]
    /\ UNCHANGED <<envKey, pc, initOK, ready, direct, imagePath, reqNo,
                   sent, agentRes, calls, result, todo, failed, history, shown,
                   clearIdx, pw, ph>>

NextPre == Normalize

SpecPre == InitPre /\ [][NextPre]_vars

\* ------------------------------------------------------------ properties

\* The step in which analyze returns control to its caller.
Returns(s) == pc[s] # "an_ret" /\ pc'[s] = "an_ret"

\* analyze has its return value and has not handed it over yet.
Returned(s) == pc[s] = "an_ret"

AnalyzerReady(s) == ready[s] = "ready"

\* C1: when analyze returns, temp/processed_image.png does not exist,
\* whatever preprocessing and agent.run did.  Stated for the calls the claim
\* is least in doubt for: the analyzer is ready and no unlink of the cleanup
\* raised.  The claim says it of every call, so a call that violates this
\* violates the claim.
C1_AsClaimed ==
    [][\A s \in Sessions :
          (Returns(s) /\ AnalyzerReady(s) /\ failed'[s] = {})
             => PROCESSED \notin DOMAIN files']_vars

\* C2: a fault of agent.run is not raised by analyze: the value analyze
\* returns is the text made of the warning sign, " Analysis failed: " and the
\* fault's message, never a result dict, and control goes on to the cleanup
\* and the return.
C2_FaultBecomesWarningText ==
    \A s \in Sessions :
        agentRes[s].kind = "fault" =>
            /\ result[s].kind = "str"
            /\ Len(result[s].parts) = 3
            /\ result[s].parts[1] = WarningSign
            /\ result[s].parts[2] = " Analysis failed: "
            /\ result[s].parts[3] = agentRes[s].msg
            /\ pc[s] \in {"glob", "unlink", "an_ret", "tab_clicked"}

C2_Witness ==
    \E s \in Sessions :
        /\ Returned(s)
        /\ AnalyzerReady(s)
        /\ processedPath[s] # None
        /\ agentRes[s].kind = "fault"

\* C3: when agent.run succeeds, the content of the value analyze returns is
\* the text agent.run returned, character for character, and main stores that
\* same text at the head of the history and hands it to the report display.
C3_ReportVerbatim ==
    \A s \in Sessions :
        agentRes[s].kind = "response" =>
            /\ result[s].kind = "dict"
            /\ result[s].content = agentRes[s].content
            /\ pc[s] = "tab_clicked" =>
                  /\ history[s] # << >>
                  /\ history[s][1].result.content = agentRes[s].content
                  /\ shown[s] = [kind |-> "report", content |-> agentRes[s].content]

C3_Witness ==
    \E s \in Sessions :
        /\ pc[s] = "tab_clicked"
        /\ agentRes[s].kind = "response"
        /\ agentRes[s].content = " report "
        /\ shown[s].kind = "report"

\* C4: every valid w x h image (w, h >= 1) is normalized to width 800 and a
\* height within one pixel of 800*h/w; normalization never fails and never
\* gives a height below 1.
\* Stated of the image img.resize gives, where the claim is least in
\* doubt: a call whose img.save raises returns None as well, on any size.
C4_AsClaimed ==
    pout # Pending =>
        /\ pout.kind = "image"
        /\ pout.w = TargetWidth
        /\ pout.h >= 1
        /\ (pout.h - 1) * pw <= TargetWidth * ph
        /\ TargetWidth * ph <= (pout.h + 1) * pw

\* C5: when the bytes Image.open reads cannot be decoded as an image,
\* preprocess_image returns no path, analyze returns "Image preprocessing
\* failed." without a call of agent.run, and when analyze returns
\* temp/processed_image.png does not exist.  Stated for the calls the claim
\* is least in doubt for: no unlink of the cleanup raised.
C5_AsClaimed ==
    [][\A s \in Sessions :
          (Returns(s) /\ opened'[s] = BadImage /\ failed'[s] = {})
             => /\ processedPath'[s] = None
                /\ result'[s] = PreprocessingFailed
                /\ calls'[s] = 0
                /\ PROCESSED \notin DOMAIN files']_vars

\* The value analyze has to return, from what happened before its cleanup.
ValueBeforeCleanup(s) ==
    IF ~AnalyzerReady(s) THEN Str(<<"Analyzer not properly initialized.">>)
    ELSE IF processedPath[s] = None THEN Str(<<"Image preprocessing failed.">>)
    ELSE IF agentRes[s].kind = "response"
         THEN [kind |-> "dict", content |-> agentRes[s].content, timestamp |-> reqNo[s]]
    ELSE Str(<<WarningSign, " Analysis failed: ", agentRes[s].msg>>)

\* C6: whatever fails (decoding, the write of the transient file, agent.run,
\* an unlink), analyze returns a text or a result dict; an unlink that raises
\* does not end the cleanup, which visits every file it listed, and the value
\* returned is the one fixed before the cleanup.
C6_NeverRaises ==
    \A s \in Sessions :
        Returned(s) =>
            /\ result[s].kind \in {"str", "dict"}
            /\ todo[s] = {}
            /\ result[s] = ValueBeforeCleanup(s)

C6_Witness ==
    \E s \in Sessions :
        /\ Returned(s)
        /\ failed[s] = {"scan.png"}
        /\ processedPath[s] # None
        /\ PROCESSED \notin DOMAIN files
        /\ agentRes[s].kind = "fault"

\* C7: a run in which Config.initialize found no key (os.getenv gave none
\* or an empty one, none was entered) and returned False is stopped there:
\* no analyzer is built, analyze is not entered and agent.run is not called
\* in that run, whatever other sessions do to os.environ meanwhile.
C7_MissingKeyHalts ==
    \A s \in Sessions :
        initOK[s] = [kind |-> "bool", val |-> FALSE] =>
            /\ pc[s] = "stopped"
            /\ ready[s] = "none"
            /\ calls[s] = 0
            /\ result[s] = None

C7_Witness ==
    \E s \in Sessions :
        /\ initOK[s] = [kind |-> "bool", val |-> FALSE]
        /\ pc[s] = "stopped"
        /\ envKey \in {"absent", "empty"}

\* C8: a call of analyze calls agent.run at most once: once when the analyzer
\* is ready and preprocess_image returned a path, not at all otherwise; after
\* a fault of agent.run there is no second call.
C8_OneCallPerRequest ==
    \A s \in Sessions :
        /\ calls[s] <= 1
        /\ Returned(s) =>
              calls[s] = (IF AnalyzerReady(s) /\ processedPath[s] # None THEN 1 ELSE 0)
        /\ agentRes[s].kind = "fault" => pc[s] # "agent"

C8_Witness ==
    \E s \in Sessions :
        /\ Returned(s)
        /\ calls[s] = 1
        /\ agentRes[s].kind = "fault"

\* C9: every request saves its normalized image at the one path
\* temp/processed_image.png; so when two requests have both saved and not yet
\* called agent.run, the file holds the image of one of them only.  The
\* witness is the state the claim says is reachable: a request whose call of
\* agent.run was given a file written by the other session's request.
C9_OneSharedPath ==
    \A s, t \in Sessions :
        /\ processedPath[s] # None => processedPath[s].path = PROCESSED
        /\ (s # t /\ pc[s] = "agent" /\ pc[t] = "agent") =>
              /\ processedPath[s] = processedPath[t]
              /\ PROCESSED \in DOMAIN files => files[PROCESSED].by \in {s, t}

C9_Witness ==
    \E s \in Sessions :
        /\ calls[s] = 1
        /\ sent[s] # None
        /\ sent[s].by \in Sessions \ {s}

\* h without its k-th entry, k counted from 1.
RemoveAt(h, k) == SubSeq(h, 1, k - 1) \o SubSeq(h, k + 1, Len(h))

HistoryWellFormed ==
    \A s \in Sessions :
        \A i \in 1..Len(history[s]) :
            /\ history[s][i].result.kind = "dict"
            /\ history[s][i].result.content \in Reports
            /\ i < Len(history[s]) =>
                  history[s][i].timestamp > history[s][i + 1].timestamp

HistoryStep ==
    \A s \in Sessions :
        /\ history'[s] # history[s] => pc[s] \in {"an_ret", "clear", "tab"}
        /\ (pc[s] = "an_ret" /\ pc'[s] # "an_ret" /\ result[s].kind = "str") =>
              history'[s] = history[s]
        /\ (pc[s] = "an_ret" /\ pc'[s] = "tab_clicked" /\ result[s].kind = "dict") =>
              /\ Len(history'[s]) = Len(history[s]) + 1
              /\ history'[s][1].result = result[s]
              /\ Tail(history'[s]) = history[s]
        /\ (pc[s] = "clear" /\ pc'[s] # "clear") =>
              history'[s] = RemoveAt(history[s], clearIdx[s] + 1)
        /\ (pc[s] = "tab" /\ history'[s] # history[s]) => history'[s] = << >>

\* C10: the history of a session holds results of successful analyses only,
\* newest first; an analysis that returned a text leaves it as it was, a
\* successful one puts its result at the head, Clear Entry #(i+1) removes
\* the entry at index i and nothing else, the entries left keeping their
\* order, Clear All History empties it.
C10_History == []HistoryWellFormed /\ [][HistoryStep]_vars

C10_Witness ==
    \E s \in Sessions :
        /\ pc[s] = "clear"
        /\ clearIdx[s] = 1
        /\ Len(history[s]) = 3

\* C11: the cleanup at the end of analyze removes every file of temp/, so
\* when analyze returns on an image uploaded through the UI (saved as
\* temp/<uploaded name>) the uploaded file does not exist; a not-ready
\* analyzer returns "Analyzer not properly initialized." and deletes nothing.
\* The first part is stated for the calls the claim is least in doubt for:
\* main() made the call and no unlink of the cleanup raised.
C11_AsClaimed ==
    [][\A s \in Sessions :
          /\ (Returns(s) /\ AnalyzerReady(s) /\ ~direct[s] /\ failed'[s] = {}
                /\ imagePath[s].path \in UploadNames)
                => imagePath[s].path \notin DOMAIN files'
          /\ (Returns(s) /\ ~AnalyzerReady(s))
                => (result'[s] = NotInitialized /\ files' = files)]_vars

====
